---- MODULE Spec2Model ----
(***************************************************************************)
(* Model of URL.py: the URLShortener store (one SQLite table, one          *)
(* connection per call), the RedirectHandler served by a single-threaded   *)
(* HTTPServer on a daemon thread, and the URLShortenerGUI handlers that    *)
(* run on the main thread.                                                 *)
(***************************************************************************)
EXTENDS Integers, Sequences, FiniteSets, TLC

\* ---------------------------------------------------------------- bounds
MaxRequests == 2   \* requests the listener accepts in one run
MaxClock    == 1   \* CURRENT_TIMESTAMP takes the values 0..MaxClock
MaxCalls    == 2   \* increment_click_count calls per code in StoreSpec

\* ------------------------------------------------------------ input sets
\* Python's None.
None == "None"

\* Texts typed into the entry field (url_var).
Entries == {"", " example.com", "http://a653.com", "https://a143.com"}

\* Request paths (self.path).
Paths == {"/", "/a9b9f0", "//f1e499"}

\* ------------------------------------------------------- pure functions
\* str.startswith(p)
StartsWith(s, p) == Len(s) >= Len(p) /\ SubSeq(s, 1, Len(p)) = p

\* str.lstrip('/')
RECURSIVE LstripSlash(_)
LstripSlash(s) ==
    IF s # "" /\ SubSeq(s, 1, 1) = "/" THEN LstripSlash(SubSeq(s, 2, Len(s))) ELSE s

\* str.strip(), for the blanks the entry texts carry
RECURSIVE LstripBlank(_)
LstripBlank(s) ==
    IF s # "" /\ SubSeq(s, 1, 1) = " " THEN LstripBlank(SubSeq(s, 2, Len(s))) ELSE s

RECURSIVE RstripBlank(_)
RstripBlank(s) ==
    IF s # "" /\ SubSeq(s, Len(s), Len(s)) = " " THEN RstripBlank(SubSeq(s, 1, Len(s) - 1)) ELSE s

Strip(s) == RstripBlank(LstripBlank(s))

\* Python truthiness of a str-or-None value ("if short_code:", "if original_url:")
Truthy(v) == v # None /\ v # ""

\* hashlib.md5(url.encode()).hexdigest()[:6], tabulated on the strings the
\* model can hand to it (values computed with hashlib).
Md5Hex6 ==
    "example.com"             :> "5ababd" @@
    "http://example.com"      :> "a9b9f0" @@
    "http://a653.com"         :> "f1e499" @@
    "http://http://a653.com"  :> "ff44c0" @@
    "https://a143.com"        :> "f1e499" @@
    "http://https://a143.com" :> "877290"

generate_short_code(url) == Md5Hex6[url]

\* Mutant of Normalize: only the 'http://' prefix is recognised.
NormalizeHttpOnly(u) == IF StartsWith(u, "http://") THEN u ELSE "http://" \o u

\* add_url, lines 45-46
Normalize(u) ==
    IF StartsWith(u, "http://") \/ StartsWith(u, "https://") THEN u ELSE "http://" \o u

\* Arguments add_url can receive from shorten_url, and the codes in play.
Inputs == {Strip(e) : e \in Entries} \ {""}
Codes  == {Md5Hex6[u] : u \in DOMAIN Md5Hex6} \cup ({LstripSlash(p) : p \in Paths} \ {""})

\* ------------------------------------------------------------ the table
\* A row of urls (id is the position in the sequence).
Row(code, url, now) ==
    [short_code |-> code, original_url |-> url, created_at |-> now, click_count |-> 0]

\* short_code TEXT UNIQUE: does the INSERT raise IntegrityError?
CodeTaken(t, code) == \E i \in DOMAIN t : t[i].short_code = code

\* Mutant of ExecInsert: INSERT OR REPLACE semantics, which never raises.
ExecInsertOrReplace(t, code, url, now) ==
    [error |-> FALSE,
     table |-> IF CodeTaken(t, code)
               THEN [i \in DOMAIN t |->
                        IF t[i].short_code = code THEN Row(code, url, now) ELSE t[i]]
               ELSE Append(t, Row(code, url, now))]

\* INSERT INTO urls (short_code, original_url) VALUES (?, ?): IntegrityError
\* when the short code is taken, else a new row with created_at = now and
\* click_count = 0 (the column defaults of init_database).
ExecInsert(t, code, url, now) ==
    IF CodeTaken(t, code)
    THEN [error |-> TRUE, table |-> t]
    ELSE [error |-> FALSE, table |-> Append(t, Row(code, url, now))]

\* Mutant of SelectCodeByUrl: the fallback looks the row up by short code.
SelectCodeByCode(t, url) ==
    IF CodeTaken(t, generate_short_code(url)) THEN generate_short_code(url) ELSE None

\* SELECT short_code FROM urls WHERE original_url = ? ; fetchone
SelectCodeByUrl(t, url) ==
    IF \E i \in DOMAIN t : t[i].original_url = url
    THEN t[CHOOSE i \in DOMAIN t :
             /\ t[i].original_url = url
             /\ \A j \in DOMAIN t : t[j].original_url = url => i <= j].short_code
    ELSE None

\* Mutant of get_original_url: the query selects the wrong column.
GetShortCode(t, code) ==
    IF \E i \in DOMAIN t : t[i].short_code = code
    THEN t[CHOOSE i \in DOMAIN t : t[i].short_code = code].short_code
    ELSE None

\* SELECT original_url FROM urls WHERE short_code = ? ; fetchone
get_original_url(t, code) ==
    IF \E i \in DOMAIN t : t[i].short_code = code
    THEN t[CHOOSE i \in DOMAIN t : t[i].short_code = code].original_url
    ELSE None

\* Mutant of IncrementRows: the counter is overwritten instead of incremented.
IncrementRowsReset(t, code) ==
    [i \in DOMAIN t |->
        IF t[i].short_code = code THEN [t[i] EXCEPT !.click_count = 1] ELSE t[i]]

\* Mutant of IncrementRows: every row is updated (the WHERE clause is lost).
IncrementRowsAll(t, code) ==
    [i \in DOMAIN t |-> [t[i] EXCEPT !.click_count = @ + 1]]

\* UPDATE urls SET click_count = click_count + 1 WHERE short_code = ?
IncrementRows(t, code) ==
    [i \in DOMAIN t |->
        IF t[i].short_code = code THEN [t[i] EXCEPT !.click_count = @ + 1] ELSE t[i]]

\* SELECT ... FROM urls ORDER BY created_at DESC: every order of the rows
\* that is descending in created_at (rows of equal created_at in any order).
Listings(t) ==
    LET n == Len(t)
        perms == {p \in [1..n -> 1..n] : \A i, j \in 1..n : i # j => p[i] # p[j]}
    IN  {[i \in 1..n |-> t[p[i]]] : p \in
            {q \in perms : \A i, j \in 1..n : i < j => t[q[i]].created_at >= t[q[j]].created_at}}

\* ---------------------------------------------------------------- state
\* Every method of URLShortener opens its own connection, runs one
\* transaction and closes (connection per call).  SQLite serializes the
\* transactions of different connections through its file lock, so each
\* transaction is one step of the model; the steps of the two threads
\* interleave between transactions.
VARIABLES
    urls,             \* the rows of table urls, in rowid order
    \* main thread (URLShortenerGUI)
    gpc,              \* where the main thread is
    tree,             \* the analytics table shown
    \* server thread (run_server, HTTPServer, RedirectHandler)
    spc,              \* where the server thread is
    httpd,            \* shortener.httpd is set
    portBound,        \* the listening socket is bound
    server_running,   \* shortener.server_running
    status_var,       \* the status label
    shutdown_request, \* HTTPServer's shutdown request flag
    is_shut_down,     \* HTTPServer's is-shut-down event
    path,             \* do_GET: path after lstrip
    original_url,     \* do_GET: the looked-up URL
    response,         \* the response to the request being handled: status and Location
    nreq,             \* requests accepted so far
    \* history
    last,             \* the last completed add_url call, and how it compares with the one before
    lastReturned,     \* code -> normalized URL of the last add_url call that returned it
    nIncr,            \* code -> completed increment_click_count calls
    n301,             \* code -> requests answered 301
    served,           \* the request being handled: its raw path and the table contents at lookup
    closedRunning,    \* on_closing was invoked while server_running was set
    ret               \* StoreSpec: the last method called on the store and its result

storeVars == <<urls>>
guiVars   == <<gpc, tree>>
srvVars   == <<spc, httpd, portBound, server_running, status_var, shutdown_request,
               is_shut_down, path, original_url, response, nreq>>
histVars  == <<last, lastReturned, nIncr, n301, served, closedRunning, ret>>
vars      == <<storeVars, guiVars, srvVars, histVars>>

NoResponse == [status |-> 0, location |-> None]
NoServed   == [path |-> None, table |-> {}]
NoCall     == [arg |-> None, url |-> None, code |-> None, ret |-> None,
               dup |-> FALSE, rep |-> "first", box |-> None]

\* The (short_code, original_url) pairs of a table.
Pairs(t) == {<<t[i].short_code, t[i].original_url>> : i \in DOMAIN t}

\* State after URLShortenerGUI.__init__ on a fresh database: table created
\* and empty, analytics loaded, server thread started, main loop about to run.
Init ==
    /\ urls = <<>>
    /\ gpc = "mainloop" /\ tree = <<>>
    /\ spc = "start" /\ httpd = FALSE /\ portBound = FALSE /\ server_running = FALSE
    /\ status_var = "" /\ shutdown_request = FALSE /\ is_shut_down = FALSE
    /\ path = None /\ original_url = None /\ response = NoResponse /\ nreq = 0
    /\ last = NoCall /\ lastReturned = [c \in Codes |-> None]
    /\ nIncr = [c \in Codes |-> 0] /\ n301 = [c \in Codes |-> 0]
    /\ served = NoServed /\ closedRunning = FALSE
    /\ ret = [op |-> None, arg |-> None, value |-> None]

\* The values CURRENT_TIMESTAMP can have at an INSERT: time does not run
\* backwards, so none before the created_at of the newest row.
Now(t) == (IF t = <<>> THEN 0 ELSE t[Len(t)].created_at) .. MaxClock

\* --------------------------------------------------------------- add_url
\* add_url, lines 43-69, as the table it leaves and the value it returns:
\* normalize, derive the code, INSERT and commit; on IntegrityError return
\* the code found by URL, or None.
add_url(t, u, now) ==
    LET url  == Normalize(u)
        code == generate_short_code(url)
        ins  == ExecInsert(t, code, url, now)
    IN  [url   |-> url,
         code  |-> code,
         dup   |-> ins.error,
         table |-> ins.table,
         ret   |-> IF ins.error THEN SelectCodeByUrl(t, url) ELSE code]

\* The record of a completed add_url call: its argument, the URL and code it
\* worked on, the value returned, whether the INSERT raised, whether the
\* call before it had the same argument ("first" when not) and returned the
\* same value, and the message box its caller showed for it.
Record(arg, r, box) ==
    [arg |-> arg, url |-> r.url, code |-> r.code, ret |-> r.ret, dup |-> r.dup,
     rep |-> IF last.arg # arg THEN "first" ELSE IF last.ret = r.ret THEN "same" ELSE "differ",
     box |-> box]

\* ---------------------------------------------------------- main thread
\* shorten_url, lines 273-293 (Shorten URL button, Return key): the entry
\* text is stripped and an empty one rejected with an error box, which
\* changes nothing; otherwise add_url runs and, with a code, the short URL is
\* shown, the analytics are refreshed (refresh_analytics, lines 309-322) and
\* a success box is shown; without one the error box "Failed to shorten URL."
\* is shown.  A message box is closed before the handler returns; the result
\* entry and the Copy and Open buttons only display the code returned and
\* are not part of the state.
ShortenUrl(e) ==
    /\ gpc = "mainloop"
    /\ LET url == Strip(e) IN
        IF url = ""
        THEN UNCHANGED <<urls, tree, last, lastReturned>>
        ELSE \E now \in Now(urls) :
             LET r == add_url(urls, url, now) IN
             /\ urls' = r.table
             /\ lastReturned' = IF r.ret # None
                                THEN [lastReturned EXCEPT ![r.ret] = r.url]
                                ELSE lastReturned
             /\ IF Truthy(r.ret)
                THEN /\ tree' \in Listings(r.table)
                     /\ last' = Record(url, r, "Success")
                ELSE /\ last' = Record(url, r, "Failed to shorten URL.")
                     /\ UNCHANGED tree
    /\ UNCHANGED <<gpc, srvVars, nIncr, n301, served, closedRunning, ret>>

\* refresh_analytics, lines 309-322 (the Refresh Analytics button)
RefreshAnalytics ==
    /\ gpc = "mainloop"
    /\ tree' \in Listings(urls)
    /\ UNCHANGED <<gpc, storeVars, srvVars, histVars>>

\* Mutant of OnClosing: the listener is never told to shut down.
OnClosingNoShutdown ==
    /\ gpc = "mainloop"
    /\ gpc' = "destroyed"
    /\ closedRunning' = server_running
    /\ UNCHANGED <<tree, storeVars, srvVars,
                   last, lastReturned, nIncr, n301, served, ret>>

\* on_closing, lines 324-328: with httpd set, httpd.shutdown() raises the
\* shutdown request and then waits for the serve loop to end; without it
\* root.destroy() follows at once, on_closing is complete and the main loop
\* ends.
OnClosing ==
    /\ gpc = "mainloop"
    /\ IF httpd
       THEN /\ shutdown_request' = TRUE
            /\ gpc' = "shutdown_wait"
       ELSE /\ gpc' = "destroyed"
            /\ UNCHANGED shutdown_request
    /\ closedRunning' = server_running
    /\ UNCHANGED <<tree, storeVars, spc, httpd, portBound,
                   server_running, status_var, is_shut_down, path, original_url,
                   response, nreq, last, lastReturned, nIncr, n301, served, ret>>

\* on_closing, lines 327-328: httpd.shutdown() returns once the serve loop
\* has ended, root.destroy() follows, on_closing is complete and the main
\* loop ends.
ShutdownReturn ==
    /\ gpc = "shutdown_wait"
    /\ is_shut_down
    /\ gpc' = "destroyed"
    /\ UNCHANGED <<tree, storeVars, srvVars, histVars>>

\* main, lines 337-343: mainloop has returned and the process exits; the
\* daemon server thread (line 270) dies with it and the operating system
\* closes its socket.
Exit ==
    /\ gpc = "destroyed"
    /\ gpc' = "exited"
    /\ spc' = IF spc \in {"stopped", "failed"} THEN spc ELSE "killed"
    /\ portBound' = FALSE
    /\ UNCHANGED <<storeVars, tree, httpd, server_running, status_var,
                   shutdown_request, is_shut_down, path, original_url, response, nreq,
                   histVars>>

\* -------------------------------------------------------- server thread
Alive == gpc # "exited"

\* run_server, line 263: HTTPServer(...) binds and listens on the port, or
\* raises when the port is in use; the handler of lines 267-268 then reports it.
Bind ==
    /\ Alive /\ spc = "start"
    /\ \E free \in BOOLEAN :
        IF free
        THEN /\ httpd' = TRUE /\ portBound' = TRUE /\ spc' = "bound"
             /\ UNCHANGED status_var
        ELSE /\ status_var' = "Server error" /\ spc' = "failed"
             /\ UNCHANGED <<httpd, portBound>>
    /\ UNCHANGED <<storeVars, guiVars, server_running, shutdown_request, is_shut_down,
                   path, original_url, response, nreq, histVars>>

\* run_server, lines 264-266: set the running flag and the status label and
\* enter serve_forever, which clears the is-shut-down event.
StartServing ==
    /\ Alive /\ spc = "bound"
    /\ server_running' = TRUE
    /\ status_var' = "Server running"
    /\ is_shut_down' = FALSE
    /\ spc' = "serve"
    /\ UNCHANGED <<storeVars, guiVars, httpd, portBound, shutdown_request,
                   path, original_url, response, nreq, histVars>>

\* serve_forever (line 266), loop test: with the shutdown request raised the
\* loop ends, clearing the request and setting the is-shut-down event; the
\* socket stays bound (server_close is never called).  The request handled
\* before, if any, is over.
ServeExit ==
    /\ Alive /\ spc = "serve"
    /\ shutdown_request
    /\ shutdown_request' = FALSE
    /\ is_shut_down' = TRUE
    /\ spc' = "stopped"
    /\ response' = NoResponse
    /\ served' = NoServed
    /\ UNCHANGED <<storeVars, guiVars, httpd, portBound, server_running, status_var,
                   path, original_url, nreq,
                   last, lastReturned, nIncr, n301, closedRunning, ret>>

\* serve_forever (line 266), loop test passed: wait for a connection (the
\* request handled before, if any, is over).
ServeSelect ==
    /\ Alive /\ spc = "serve"
    /\ ~shutdown_request
    /\ spc' = "select"
    /\ response' = NoResponse
    /\ served' = NoServed
    /\ UNCHANGED <<storeVars, guiVars, httpd, portBound, server_running, status_var,
                   shutdown_request, is_shut_down, path, original_url, nreq,
                   last, lastReturned, nIncr, n301, closedRunning, ret>>

\* serve_forever (line 266): the poll interval passes without a connection.
ServeTimeout ==
    /\ Alive /\ spc = "select"
    /\ spc' = "serve"
    /\ UNCHANGED <<storeVars, guiVars, httpd, portBound, server_running, status_var,
                   shutdown_request, is_shut_down, path, original_url, response, nreq,
                   histVars>>

\* serve_forever accepts a GET request; do_GET, lines 111-132: strip the
\* leading slashes; an empty path is answered 200, any other is looked up.
Accept(p) ==
    /\ Alive /\ spc = "select"
    /\ nreq < MaxRequests
    /\ nreq' = nreq + 1
    /\ served' = [path |-> p, table |-> Pairs(urls)]
    /\ IF LstripSlash(p) = ""
       THEN /\ response' = [status |-> 200, location |-> None]
            /\ spc' = "serve"
            /\ UNCHANGED <<path, original_url>>
       ELSE /\ path' = LstripSlash(p)
            /\ original_url' = get_original_url(urls, LstripSlash(p))
            /\ spc' = "looked_up"
            /\ response' = NoResponse
    /\ UNCHANGED <<storeVars, guiVars, httpd, portBound, server_running, status_var,
                   shutdown_request, is_shut_down, last, lastReturned, nIncr, n301,
                   closedRunning, ret>>

\* do_GET, lines 134 and 142-156: no URL for the code, answer 404.
NotFound ==
    /\ Alive /\ spc = "looked_up"
    /\ ~Truthy(original_url)
    /\ response' = [status |-> 404, location |-> None]
    /\ path' = None /\ original_url' = None
    /\ spc' = "serve"
    /\ UNCHANGED <<storeVars, guiVars, httpd, portBound, server_running, status_var,
                   shutdown_request, is_shut_down, nreq, histVars>>

\* do_GET, lines 134-136, and increment_click_count, lines 83-92.
Increment ==
    /\ Alive /\ spc = "looked_up"
    /\ Truthy(original_url)
    /\ urls' = IncrementRows(urls, path)
    /\ nIncr' = [nIncr EXCEPT ![path] = @ + 1]
    /\ spc' = "respond"
    /\ UNCHANGED <<guiVars, httpd, portBound, server_running, status_var,
                   shutdown_request, is_shut_down, path, original_url, response, nreq,
                   last, lastReturned, n301, served, closedRunning, ret>>

\* do_GET, lines 139-141: answer 301 with the looked-up URL as Location.
Redirect ==
    /\ Alive /\ spc = "respond"
    /\ response' = [status |-> 301, location |-> original_url]
    /\ n301' = [n301 EXCEPT ![path] = @ + 1]
    /\ path' = None /\ original_url' = None
    /\ spc' = "serve"
    /\ UNCHANGED <<storeVars, guiVars, httpd, portBound, server_running, status_var,
                   shutdown_request, is_shut_down, nreq,
                   last, lastReturned, nIncr, served, closedRunning, ret>>

\* ---------------------------------------------------------- the program
Next ==
    \/ \E e \in Entries : ShortenUrl(e)
    \/ RefreshAnalytics
    \/ OnClosing
    \/ ShutdownReturn
    \/ Exit
    \/ Bind
    \/ StartServing
    \/ ServeExit
    \/ ServeSelect
    \/ ServeTimeout
    \/ \E p \in Paths : Accept(p)
    \/ NotFound
    \/ Increment
    \/ Redirect

Spec == Init /\ [][Next]_vars

\* Liveness: both threads keep running while they can take a step of their
\* own (accepting a connection depends on a client and is not forced).
MainThread   == ShutdownReturn \/ Exit
ServerThread == Bind \/ StartServing \/ ServeExit \/ ServeSelect \/ ServeTimeout
                \/ NotFound \/ Increment \/ Redirect

FairSpec == Spec /\ WF_vars(MainThread) /\ WF_vars(ServerThread)

\* ------------------------------------------------- the store on its own
\* The methods of URLShortener called one at a time by a single caller,
\* with any argument: the codes of the two URLs that can be stored and one
\* that no stored URL has.
ApiCodes == {"a9b9f0", "f1e499", "5ababd"}

ApiAddUrl(u) ==
    /\ \E now \in Now(urls) :
        LET r == add_url(urls, u, now) IN
        /\ urls' = r.table
        /\ last' = Record(u, r, None)
        /\ lastReturned' = IF r.ret # None
                           THEN [lastReturned EXCEPT ![r.ret] = r.url]
                           ELSE lastReturned
        /\ ret' = [op |-> "add_url", arg |-> u, value |-> r.ret]
    /\ UNCHANGED <<guiVars, srvVars, nIncr, n301, served, closedRunning>>

ApiGetOriginalUrl(c) ==
    /\ ret' = [op |-> "get_original_url", arg |-> c, value |-> get_original_url(urls, c)]
    /\ UNCHANGED <<storeVars, guiVars, srvVars, last, lastReturned, nIncr, n301, served,
                   closedRunning>>

ApiIncrement(c) ==
    /\ nIncr[c] < MaxCalls
    /\ urls' = IncrementRows(urls, c)
    /\ nIncr' = [nIncr EXCEPT ![c] = @ + 1]
    /\ ret' = [op |-> "increment_click_count", arg |-> c, value |-> None]
    /\ UNCHANGED <<guiVars, srvVars, last, lastReturned, n301, served, closedRunning>>

ApiGetAllUrls ==
    /\ \E l \in Listings(urls) : ret' = [op |-> "get_all_urls", arg |-> None, value |-> l]
    /\ UNCHANGED <<storeVars, guiVars, srvVars, last, lastReturned, nIncr, n301, served,
                   closedRunning>>

StoreNext ==
    \/ \E u \in Inputs : ApiAddUrl(u)
    \/ \E c \in ApiCodes : ApiGetOriginalUrl(c)
    \/ \E c \in ApiCodes : ApiIncrement(c)
    \/ ApiGetAllUrls

StoreSpec == Init /\ [][StoreNext]_vars

\* ================================================================ claims
\* Rows of the table whose original_url is url.
RowsOf(url) == {i \in DOMAIN urls : urls[i].original_url = url}

\* The request being handled has been answered, or none is being handled.
NoRequestInFlight == spc \in {"start", "failed", "bound", "serve", "select", "stopped"}

\* C1: add_url called twice in a row with one URL returns the same short code
\* both times, and the table then holds exactly one row whose original_url is
\* the normalized URL.
C1_IdempotentInsert ==
    last.rep # "first" =>
        /\ last.rep = "same"
        /\ last.ret \in Codes
        /\ Cardinality(RowsOf(last.url)) = 1

\* C2: the response to a request is decided by its path and the table at
\* lookup time: 200 for a path of slashes only, 301 with the stored
\* original_url as Location for a code in the table, 404 for any other code.
C2_ResponseByPathAndStore ==
    response # NoResponse =>
        LET code  == LstripSlash(served.path)
            known == {pr \in served.table : pr[1] = code}
        IN  /\ code = "" => response = [status |-> 200, location |-> None]
            /\ (code # "" /\ known # {}) =>
                   /\ response.status = 301
                   /\ <<code, response.location>> \in known
            /\ (code # "" /\ known = {}) => response = [status |-> 404, location |-> None]

C2_Witness ==
    /\ response.status = 301
    /\ served.path = "//f1e499"
    /\ Cardinality(served.table) = 2

\* C3: no increment is lost: whatever add_url and get_all_urls calls of the
\* main thread interleave with the requests, every entry's click_count is the
\* number of increment_click_count calls completed for its code.
C3_NoLostIncrements ==
    \A i \in DOMAIN urls : urls[i].click_count = nIncr[urls[i].short_code]

C3_Witness ==
    /\ Len(urls) = 2
    /\ \E i \in DOMAIN urls : urls[i].click_count = 2 /\ urls[i].short_code = urls[1].short_code
    /\ tree # <<>>
    /\ spc = "respond"

\* C4: an add_url call whose INSERT violates the uniqueness of short_code
\* returns the existing short code and is not reported as a failure.
C4_DuplicateKeyNeverFails ==
    last.dup => (last.ret \in Codes /\ last.box # "Failed to shorten URL.")

\* C5: one increment_click_count(code) call adds exactly 1 to the click_count
\* of the row with that code and changes nothing else (so N calls add N); for
\* a code that is not in the table it changes nothing, and it completes.
C5_IncrementExact ==
    [][\A c \in Codes :
          nIncr'[c] = nIncr[c] + 1 =>
              /\ Len(urls') = Len(urls)
              /\ \A i \in DOMAIN urls :
                    urls'[i] = IF urls[i].short_code = c
                               THEN [urls[i] EXCEPT !.click_count = urls[i].click_count + 1]
                               ELSE urls[i]
              /\ ret' = [op |-> "increment_click_count", arg |-> c, value |-> None]]_vars

C5_Witness ==
    /\ Len(urls) = 2
    /\ \E i \in DOMAIN urls : urls[i].click_count = 2 /\ nIncr[urls[i].short_code] = 2
    /\ \E i \in DOMAIN urls : urls[i].click_count = 0
    /\ nIncr["5ababd"] = 1
    /\ ret.op = "increment_click_count"

\* C6: once the requests accepted have been answered, every entry's
\* click_count is the number of requests for its code answered 301 (requests
\* answered 200 or 404 count nowhere).
C6_ClicksCountRedirects ==
    NoRequestInFlight =>
        \A i \in DOMAIN urls : urls[i].click_count = n301[urls[i].short_code]

C6_Witness ==
    /\ spc = "serve"
    /\ response.status = 301
    /\ \E i \in DOMAIN urls : urls[i].click_count = 2
    /\ Len(urls) = 2

\* C7: get_original_url returns None for a code that is not in the table,
\* and for a code in the table the normalized URL of the last add_url call
\* that returned this code.
C7_LookupReturnsLastInserted ==
    \A c \in Codes :
        /\ get_original_url(urls, c) = lastReturned[c]
        /\ (\A i \in DOMAIN urls : urls[i].short_code # c) => get_original_url(urls, c) = None

C7_Witness ==
    /\ last.dup /\ last.ret = None /\ last.code = "f1e499"
    /\ get_original_url(urls, "f1e499") # None
    /\ get_original_url(urls, "a9b9f0") = None

C9_SchemeNormalization ==
    /\ last.arg # None =>
        LET u == last.arg
            qualified == StartsWith(u, "http://") \/ StartsWith(u, "https://")
            expected  == IF qualified THEN u ELSE "http://" \o u
        IN  /\ last.url = expected
            /\ last.code = Md5Hex6[expected]
            /\ last.ret \in {None, Md5Hex6[expected]}
            /\ ~last.dup => <<Md5Hex6[expected], expected>> \in Pairs(urls)
    /\ \A i \in DOMAIN urls :
        /\ StartsWith(urls[i].original_url, "http://") \/ StartsWith(urls[i].original_url, "https://")
        /\ urls[i].short_code = Md5Hex6[urls[i].original_url]

C9_Witness ==
    /\ last.arg = "https://a143.com" /\ ~last.dup
    /\ Pairs(urls) = {<<"a9b9f0", "http://example.com">>, <<"f1e499", "https://a143.com">>}

\* C10: in every step an entry stays in the table with its short_code,
\* original_url and created_at unchanged, and its click_count does not
\* decrease.
C10_EntryLifecycle ==
    [][/\ Len(urls') >= Len(urls)
       /\ \A i \in DOMAIN urls :
            /\ urls'[i].short_code = urls[i].short_code
            /\ urls'[i].original_url = urls[i].original_url
            /\ urls'[i].created_at = urls[i].created_at
            /\ urls'[i].click_count >= urls[i].click_count]_vars

C10_Witness ==
    /\ Len(urls) = 2
    /\ urls[1].created_at = 0 /\ urls[2].created_at = 1
    /\ urls[1].click_count = 1
    /\ last.dup
    /\ tree # <<>>

====
